---- MODULE Spec2Model ----
(***************************************************************************)
(* Verification model of the interactive web map (IS218GR8).               *)
(*                                                                         *)
(*   SpecCache   DataModel's memoised fetches (src/src/models/DataModel.js *)
(*               and the copy of fetchOGCAPI in the bundled app.js), with  *)
(*               any interleaving of callers and of request completions.   *)
(*   SpecSearch  the radius search of an initialised application: map      *)
(*               clicks, spatial-search and clear-search events over every *)
(*               bounded feature collection the local layer can hold.      *)
(*   SpecLoad    AppController.init() of the bundled app.js: the local     *)
(*               layer, the Kartverket address layer and the optional      *)
(*               Supabase layer are loaded one after the other.            *)
(*               SpecLoadFair adds that init() keeps running.              *)
(*   SpecControl the same init() with the layer control in use: the        *)
(*               checkboxes are toggled while init() awaits a source and   *)
(*               after it has finished.                                    *)
(*   SpecModule  AppController.init() of the ES-module application         *)
(*               (AppController.js): the local layer is fetched through    *)
(*               DataModel.fetchGeoJSON, then the events are handled.      *)
(*               SpecModuleFair adds that init() keeps running.            *)
(*   SpecQuery   DataModel.querySupabaseWithinDistance and its fall-back   *)
(*               to the full-table query.                                  *)
(*   SpecLayers  MapModel on its own: any sequence of addLayer,            *)
(*               toggleLayer, setLayerData and getVisibleLayers.           *)
(*   SpecSources DataModel.registerSource on a new DataModel.              *)
(*   SpecDistance DataModel.filterByDistance over places and centers at    *)
(*               the same coordinates.                                     *)
(***************************************************************************)
EXTENDS Integers, Sequences, FiniteSets, TLC

VARIABLES
    cache,      \* DataModel.cache (DataModel.js): cache key -> stored response
    calls,      \* every call of a fetch method so far, in call order
    okKeys      \* history: keys with a stored response: the last completed load
                \* succeeded, with no failure and no clearCache since

VARIABLES
    layers,             \* MapModel.layers, in insertion order: name, data, visible
    viewLayers,         \* MapView.layers: layerId -> geojson shown, and whether
                        \* its Leaflet layer is on the map
    searchCircle,       \* MapView.searchCircle
    currentSearchPoint, \* AppController.currentSearchPoint
    listeners,          \* UIView.listeners and the map's click handler
    lastToast,          \* the notification shown last (UIView.toast)
    lastSearch          \* history: radius of the last performSpatialSearch and the
                        \* number of features its filter callback was run on

VARIABLES
    pc,         \* where AppController.init() stands: "none" (no application),
                \* "start", "local", "ogc", "supabase", "listeners", "ready",
                \* "error"; where querySupabaseWithinDistance stands: "idle",
                \* "rpc", "select", "done"; for a MapModel on its own, the
                \* method called last
    requests,   \* the request init() makes to each optional source: "none",
                \* "noClient" (window.SUPABASE_CLIENT is not set), "pending",
                \* "resolved" or "rejected"; the requests `rpc` and `select`
                \* of querySupabaseWithinDistance: "none", "pending",
                \* "answered" or "failed"
    initResult, \* the promise init() returned: "none" (not called), "pending",
                \* "fulfilled" or "rejected"
    returned    \* history: what the last call of a MapModel method or of
                \* querySupabaseWithinDistance returned or threw

VARIABLES
    dataSources, \* DataModel.dataSources: source name -> config
    checked,     \* the checkboxes of the layer control: layerId -> checked
    loading,     \* whether the loading indicator is shown (UIView.setLoading)
    orphans      \* Leaflet layers that are on the map while MapView.layers no
                 \* longer refers to them: layerId -> how many

cacheVars == <<cache, calls, okKeys>>

searchVars == <<layers, viewLayers, searchCircle, currentSearchPoint, listeners,
                lastToast, lastSearch>>

initVars == <<pc, requests, initResult>>

controlVars == <<dataSources, checked, loading>>

pageVars == <<searchVars, controlVars, orphans>>

appVars == <<searchVars, initVars, returned, controlVars, orphans>>

vars == <<cache, calls, okKeys, layers, viewLayers, searchCircle,
          currentSearchPoint, listeners, lastToast, lastSearch, pc, requests,
          initResult, returned, dataSources, checked, loading, orphans>>

(***************************************************************************)
(* Bounds                                                                  *)
(***************************************************************************)
MaxCalls == 2

MaxFeatures == 3

MaxRecords == 2

MaxRows == 2

(***************************************************************************)
(* DataModel: inputs                                                       *)
(***************************************************************************)
\* Strings are sequences of tokens, so that url + JSON.stringify(params) is a
\* concatenation that two different (url, params) pairs can make equal.
Urls == {<<"a">>, <<"a", "{}">>}

\* params objects, as the sequence of their keys
Params == {<<>>, <<"sok">>}

\* bodies a server can answer with
Data == {"d1", "d2"}

EmptyMap == [k \in {} |-> "d1"]

JSONstringify(params) ==
    IF params = <<>> THEN <<"{}">> ELSE <<"{">> \o params \o <<"}">>

URLSearchParamsToString(params) == params

GeoJSONCacheKey(url) == url

OGCCacheKey(url, params) == url \o JSONstringify(params)

FullUrl(url, params) ==
    IF URLSearchParamsToString(params) # <<>>
    THEN url \o <<"?">> \o URLSearchParamsToString(params)
    ELSE url

MapSet(m, k, v) == [x \in (DOMAIN m) \cup {k} |-> IF x = k THEN v ELSE m[x]]

\* the config of a source: its type and its url
SourceConfig(type, url) == [type |-> type, url |-> url]

NoSources == [k \in {} |-> SourceConfig("geojson", <<>>)]

\* registerSource(name, config): this.dataSources.set(name, config)
registerSource(ds, name, config) == MapSet(ds, name, config)

(***************************************************************************)
(* DataModel: the fetch methods.  A call runs synchronously up to its      *)
(* first await; each await is a separate step, taken when the awaited      *)
(* promise settles.                                                        *)
(***************************************************************************)
CallIds == 1..Len(calls)

InFlight(i) == calls[i].pc \in {"fetch", "json"}

NewCall(cls, method, key, request) ==
    IF cls = "module" /\ key \in DOMAIN cache
    THEN [cls |-> cls, method |-> method, key |-> key, request |-> request,
          pc |-> "resolved", result |-> cache[key], issued |-> FALSE,
          priorOK |-> <<cls, key>> \in okKeys]
    ELSE [cls |-> cls, method |-> method, key |-> key, request |-> request,
          pc |-> "fetch", result |-> "none", issued |-> TRUE,
          priorOK |-> <<cls, key>> \in okKeys]

fetchGeoJSON(url) ==
    /\ Len(calls) < MaxCalls
    /\ calls' = Append(calls, NewCall("module", "fetchGeoJSON", GeoJSONCacheKey(url), url))
    /\ UNCHANGED <<cache, okKeys>>

fetchOGCAPI(url, params) ==
    /\ Len(calls) < MaxCalls
    /\ calls' = Append(calls, NewCall("module", "fetchOGCAPI",
                                      OGCCacheKey(url, params), FullUrl(url, params)))
    /\ UNCHANGED <<cache, okKeys>>

\* the bundled app.js copy: no cache lookup, no cache write
BundleFetchOGCAPI(url, params) ==
    /\ Len(calls) < MaxCalls
    /\ calls' = Append(calls, NewCall("bundle", "fetchOGCAPI",
                                      OGCCacheKey(url, params), FullUrl(url, params)))
    /\ UNCHANGED <<cache, okKeys>>

\* a failure path that also evicts the key (cache.delete(key) in the catch block)
RejectedEvicts(i, err) ==
    /\ calls' = [calls EXCEPT ![i].pc = "rejected", ![i].result = err]
    /\ okKeys' = okKeys \ {<<calls[i].cls, calls[i].key>>}
    /\ cache' = [k \in (DOMAIN cache) \ {calls[i].key} |-> cache[k]]

Rejected(i, err) ==
    /\ calls' = [calls EXCEPT ![i].pc = "rejected", ![i].result = err]
    /\ okKeys' = okKeys \ {<<calls[i].cls, calls[i].key>>}
    /\ UNCHANGED cache

\* await fetch(...) rejects: network error
FetchRejects(i) ==
    /\ calls[i].pc = "fetch"
    /\ Rejected(i, "NetworkError")

\* await fetch(...) resolves; a non-OK status throws
FetchResponds(i, ok) ==
    /\ calls[i].pc = "fetch"
    /\ IF ok
       THEN /\ calls' = [calls EXCEPT ![i].pc = "json"]
            /\ UNCHANGED <<cache, okKeys>>
       ELSE Rejected(i, "HTTPError")

\* await response.json() rejects: the body is not JSON
JsonRejects(i) ==
    /\ calls[i].pc = "json"
    /\ Rejected(i, "SyntaxError")

CacheWrite(i, data) ==
    IF calls[i].cls = "module" THEN MapSet(cache, calls[i].key, data) ELSE cache

\* await response.json() resolves: cache.set(key, data); return data
JsonResolves(i, data) ==
    /\ calls[i].pc = "json"
    /\ cache' = CacheWrite(i, data)
    /\ calls' = [calls EXCEPT ![i].pc = "resolved", ![i].result = data]
    /\ okKeys' = okKeys \cup {<<calls[i].cls, calls[i].key>>}

clearCache ==
    /\ cache # EmptyMap
    /\ cache' = EmptyMap
    /\ okKeys' = {p \in okKeys : p[1] # "module"}
    /\ UNCHANGED calls

(***************************************************************************)
(* JavaScript values.  Every value is a record whose tag t says what the   *)
(* value is; a second field, named after the kind, carries its content.    *)
(***************************************************************************)
Num(n) == [t |-> "number", n |-> n]

NaN == [t |-> "NaN"]

Undefined == [t |-> "undefined"]

Null == [t |-> "null"]

Arr(s) == [t |-> "array", a |-> s]

\* !x
Falsy(x) == x.t \in {"undefined", "null", "NaN"} \/ (x.t = "number" /\ x.n = 0)

\* const [a, b] = arr: the i-th element, undefined past the end
ElementAt(arr, i) == IF i <= Len(arr.a) THEN arr.a[i] ELSE Undefined

\* ToNumber, as applied by the operators - and *: undefined is NaN, null is 0, an
\* array goes through its string: [] is "" (0), [x] is String(x), and a longer
\* array is "x,y,..." (NaN)
RECURSIVE ToNumber(_)
ToNumber(x) ==
    CASE x.t = "number" -> x
      [] x.t = "NaN" -> NaN
      [] x.t = "undefined" -> NaN
      [] x.t = "null" -> Num(0)
      [] x.t = "array" ->
            IF Len(x.a) = 0 THEN Num(0)
            ELSE IF Len(x.a) = 1
                 THEN IF x.a[1].t \in {"undefined", "null"} THEN Num(0)
                      ELSE ToNumber(x.a[1])
                 ELSE NaN
      [] OTHER -> NaN

(***************************************************************************)
(* Numbers.  Degrees and kilometres are integers; radians and the values   *)
(* of the Math functions are fixed-point with Scale units to 1, rounded    *)
(* towards zero (as IEEE rounding, symmetric in the sign).                 *)
(***************************************************************************)
Scale == 10000

\* Math.PI, Math.PI / 2, Math.PI / 4 in fixed point
PI == 31416

HalfPI == 15708

QuarterPI == 7854

\* const R = 6371
R == 6371

Div(a, b) == IF a >= 0 THEN a \div b ELSE -((-a) \div b)

Mul(a, b) == Div(a * b, Scale)

\* Math.sin on [0, PI/2]: x - x^3/3! + x^5/5! - x^7/7!
SinPoly(x) ==
    LET x2 == Mul(x, x)
    IN  Mul(x, Scale - Mul(Div(x2, 6), Scale - Mul(Div(x2, 20), Scale - Div(x2, 42))))

\* Math.sin on [-PI, PI]
Sin(x) ==
    LET ax == IF x < 0 THEN -x ELSE x
        r  == IF ax > HalfPI THEN PI - ax ELSE ax
    IN  IF x < 0 THEN -SinPoly(r) ELSE SinPoly(r)

\* Math.cos on [0, PI/2]: 1 - x^2/2! + x^4/4! - x^6/6! + x^8/8!
CosPoly(x) ==
    LET x2 == Mul(x, x)
    IN  Scale - Mul(Div(x2, 2), Scale - Mul(Div(x2, 12),
                    Scale - Mul(Div(x2, 30), Scale - Div(x2, 56))))

\* Math.cos on [-PI, PI]
Cos(x) ==
    LET ax == IF x < 0 THEN -x ELSE x
    IN  IF ax > HalfPI THEN -CosPoly(PI - ax) ELSE CosPoly(ax)

\* the largest s in lo..hi with s * s <= n
RECURSIVE SqrtIter(_, _, _)
SqrtIter(n, lo, hi) ==
    IF lo >= hi THEN lo
    ELSE LET mid == (lo + hi + 1) \div 2
         IN  IF mid * mid <= n THEN SqrtIter(n, mid, hi)
             ELSE SqrtIter(n, lo, mid - 1)

\* Math.sqrt of n / Scale^2, in fixed point
Sqrt(n) == SqrtIter(n, 0, 2 * Scale)

\* arctangent on [-tan(PI/8), tan(PI/8)]: u - u^3/3 + u^5/5 - u^7/7
AtanPoly(u) ==
    LET u2 == Mul(u, u)
    IN  Mul(u, Scale - Mul(u2, Div(Scale, 3)
                 - Mul(u2, Div(Scale, 5) - Mul(u2, Div(Scale, 7)))))

\* arctangent on [0, 1]
Atan(t) ==
    IF t > 4142
    THEN QuarterPI + AtanPoly(Div((t - Scale) * Scale, t + Scale))
    ELSE AtanPoly(t)

\* Math.atan2(y, x) for y >= 0, x >= 0
Atan2(y, x) ==
    IF y = 0 THEN 0
    ELSE IF x >= y THEN Atan(Div(y * Scale, x))
    ELSE HalfPI - Atan(Div(x * Scale, y))

\* deg * Math.PI / 180
Rad(deg) == Div(deg * PI, 180)

\* the haversine formula of filterByDistance, on JavaScript values: R * c in
\* fixed point, or NaN
Haversine(lat1, lng1, lat2, lng2) ==
    LET nLat1 == ToNumber(lat1)
        nLng1 == ToNumber(lng1)
        nLat2 == ToNumber(lat2)
        nLng2 == ToNumber(lng2)
    IN  IF "NaN" \in {nLat1.t, nLng1.t, nLat2.t, nLng2.t} THEN NaN
        ELSE LET dLat == Rad(nLat2.n - nLat1.n)
                 dLng == Rad(nLng2.n - nLng1.n)
                 sLat == Sin(Div(dLat, 2))
                 sLng == Sin(Div(dLng, 2))
                 a == sLat * sLat
                      + Mul(Cos(Rad(nLat1.n)), Cos(Rad(nLat2.n))) * Div(sLng * sLng, Scale)
             IN  IF Scale * Scale - a < 0 THEN NaN
                 ELSE Num(R * (2 * Atan2(Sqrt(a), Sqrt(Scale * Scale - a))))

\* distance < radiusKm: the boundary is left out
DistanceBelow(distance, radiusKm) ==
    distance.t = "number" /\ distance.n < radiusKm * Scale

\* distance >= radiusKm: the comparison is reversed
DistanceBeyond(distance, radiusKm) ==
    distance.t = "number" /\ distance.n >= radiusKm * Scale

\* distance <= radiusKm
DistanceWithin(distance, radiusKm) ==
    distance.t = "number" /\ distance.n <= radiusKm * Scale

(***************************************************************************)
(* GeoJSON                                                                 *)
(***************************************************************************)
Geometry(type, coordinates) == [type |-> type, coordinates |-> coordinates]

Feature(geometry) == [type |-> "Feature", geometry |-> geometry]

\* "geometry": null
NoGeometry == Geometry("null", Undefined)

FeatureCollection(features) == [t |-> "FeatureCollection", features |-> features]

\* a GeoJSON position, [longitude, latitude]
Position(lng, lat) == Arr(<<Num(lng), Num(lat)>>)

PointFeature(lng, lat) == Feature(Geometry("Point", Position(lng, lat)))

\* Oslo and Trondheim, on whole degrees
OsloFeature == PointFeature(11, 60)

TrondheimFeature == PointFeature(10, 63)

LineFeature ==
    Feature(Geometry("LineString", Arr(<<Position(11, 60), Position(10, 63)>>)))

PolygonFeature ==
    Feature(Geometry("Polygon",
        Arr(<<Arr(<<Position(11, 60), Position(10, 63), Position(12, 58),
                    Position(11, 60)>>)>>)))

NoGeometryFeature == Feature(NoGeometry)

Features ==
    {OsloFeature, TrondheimFeature, LineFeature, PolygonFeature, NoGeometryFeature}

Collections ==
    {FeatureCollection(s) : s \in UNION {[1..n -> Features] : n \in 0..MaxFeatures}}

\* e.latlng of a map click: [latitude, longitude]
Centers == {Arr(<<Num(60), Num(11)>>), Arr(<<Num(63), Num(10)>>)}

\* parseFloat(radiusInput.value)
Radii == {-5, 0, 50, 400}

(***************************************************************************)
(* DataModel.filterByDistance                                              *)
(***************************************************************************)
\* the first position of nested coordinates is taken for the pair
DestructureFirstPosition(coordinates) ==
    IF ElementAt(coordinates, 1).t = "array"
    THEN <<ElementAt(ElementAt(coordinates, 1), 1),
           ElementAt(ElementAt(coordinates, 1), 2)>>
    ELSE <<ElementAt(coordinates, 1), ElementAt(coordinates, 2)>>

\* const [lat1, lng1] = point; const [lng2, lat2] = feature.geometry.coordinates
Destructure(coordinates) == <<ElementAt(coordinates, 1), ElementAt(coordinates, 2)>>

\* a callback that reads the coordinates of the feature as [lat, lng]
WithinDistanceLatLng(feature, point, radiusKm) ==
    LET latLng1 == Destructure(point)
        latLng2 == Destructure(feature.geometry.coordinates)
    IN  DistanceWithin(Haversine(latLng1[1], latLng1[2], latLng2[1], latLng2[2]),
                       radiusKm)

\* the filter callback, for a feature that has a geometry
WithinDistance(feature, point, radiusKm) ==
    LET latLng1 == Destructure(point)
        lngLat2 == Destructure(feature.geometry.coordinates)
    IN  DistanceWithin(Haversine(latLng1[1], latLng1[2], lngLat2[2], lngLat2[1]),
                       radiusKm)

\* feature.geometry.coordinates throws a TypeError when geometry is null
Throws(feature) == feature.geometry.type = "null"

\* the index of the first feature the callback throws on, 0 if none
FirstThrowing(features) ==
    IF \E i \in 1..Len(features) : Throws(features[i])
    THEN CHOOSE i \in 1..Len(features) :
            /\ Throws(features[i])
            /\ \A j \in 1..(i - 1) : ~Throws(features[j])
    ELSE 0

\* the returned collection, or the exception; tested is the number of
\* features the callback ran on
filterByDistance(geojson, point, radiusKm) ==
    LET features == geojson.features
        bad == FirstThrowing(features)
        Keep(f) == WithinDistance(f, point, radiusKm)
    IN  IF bad # 0
        THEN [threw |-> TRUE, features |-> <<>>, tested |-> bad]
        ELSE [threw |-> FALSE, features |-> SelectSeq(features, Keep),
              tested |-> Len(features)]

(***************************************************************************)
(* MapModel                                                                *)
(***************************************************************************)
\* this.layers.has(name), on the layers ls
HasLayer(ls, name) == \E i \in 1..Len(ls) : ls[i].name = name

LayerIndex(ls, name) == CHOOSE i \in 1..Len(ls) : ls[i].name = name

\* addLayer(name, config): data is null, visible comes from config; a Map keeps
\* the place of a key that is set again
addLayer(ls, name, visible) ==
    IF HasLayer(ls, name)
    THEN [i \in 1..Len(ls) |->
             IF ls[i].name = name
             THEN [name |-> name, data |-> Null, visible |-> visible]
             ELSE ls[i]]
    ELSE Append(ls, [name |-> name, data |-> Null, visible |-> visible])

\* a toggle that hides the layer whatever its flag was
hideLayer(ls, name) ==
    [i \in 1..Len(ls) |->
        IF ls[i].name = name THEN [ls[i] EXCEPT !.visible = FALSE] ELSE ls[i]]

\* toggleLayer(name): the layers afterwards
toggleLayer(ls, name) ==
    [i \in 1..Len(ls) |->
        IF ls[i].name = name THEN [ls[i] EXCEPT !.visible = ~ls[i].visible] ELSE ls[i]]

\* toggleLayer(name): the value returned
toggleLayerReturn(ls, name) ==
    IF HasLayer(ls, name) THEN ~ls[LayerIndex(ls, name)].visible ELSE FALSE

\* every layer, visible or not
getAllLayers(ls) == ls

\* getVisibleLayers(): Array.from(this.layers.values()).filter(l => l.visible)
getVisibleLayers(ls) ==
    LET Visible(l) == l.visible
    IN  SelectSeq(ls, Visible)

\* setLayerData(layerName, data)
setLayerDataOrRegister(ls, layerName, data) ==
    IF HasLayer(ls, layerName)
    THEN [i \in 1..Len(ls) |->
             IF ls[i].name = layerName THEN [ls[i] EXCEPT !.data = data] ELSE ls[i]]
    ELSE Append(ls, [name |-> layerName, data |-> data, visible |-> TRUE])

setLayerData(ls, layerName, data) ==
    [i \in 1..Len(ls) |->
        IF ls[i].name = layerName THEN [ls[i] EXCEPT !.data = data] ELSE ls[i]]

\* layers.get(name)?.data, on the layers ls
LayerDataOf(ls, name) ==
    IF HasLayer(ls, name) THEN ls[LayerIndex(ls, name)].data ELSE Undefined

\* the features found by the last search, if there are any, instead of the
\* layer's data
LayerDataOrLastResult(name) ==
    IF "geojson-search-results" \in DOMAIN viewLayers
    THEN viewLayers["geojson-search-results"].geojson
    ELSE LayerDataOf(layers, name)

\* a layer without data is given an empty collection
LayerDataOrEmpty(name) ==
    IF Falsy(LayerDataOf(layers, name)) THEN FeatureCollection(<<>>)
    ELSE LayerDataOf(layers, name)

\* this.mapModel.layers.get(name)?.data
LayerData(name) == LayerDataOf(layers, name)

(***************************************************************************)
(* MapView                                                                 *)
(***************************************************************************)
NoViewLayers == [k \in {} |-> [geojson |-> Undefined, onMap |-> FALSE]]

\* L.geoJSON(geojson).addTo(this.map); this.layers.set(layerId, {layer, geojson})
addGeoJSONLayer(vl, layerId, geojson) ==
    MapSet(vl, layerId, [geojson |-> geojson, onMap |-> TRUE])

NoOrphans == [k \in {} |-> 0]

OrphanCount(o, layerId) == IF layerId \in DOMAIN o THEN o[layerId] ELSE 0

\* this.layers.set(layerId, ...) in addGeoJSONLayer: the Leaflet layer that was
\* stored under layerId is not taken off the map
OrphansAfterAdd(vl, o, layerId) ==
    IF layerId \in DOMAIN vl /\ vl[layerId].onMap
    THEN MapSet(o, layerId, OrphanCount(o, layerId) + 1)
    ELSE o

\* toggleLayerVisibility(layerId, visible): the Leaflet layer is put on the map
\* or taken off it
toggleLayerVisibility(vl, layerId, visible) ==
    IF layerId \in DOMAIN vl
    THEN [vl EXCEPT ![layerId].onMap = visible]
    ELSE vl

\* a removeLayer that removes nothing
keepLayer(vl, layerId) == vl

\* this.map.removeLayer(layer); this.layers.delete(layerId)
removeLayer(vl, layerId) == [k \in (DOMAIN vl) \ {layerId} |-> vl[k]]

\* the circle replaces the one drawn before, if any
drawSearchRadius(center, radiusKm) ==
    [t |-> "circle", center |-> center, radius |-> radiusKm * 1000]

clearSearchVisualization ==
    /\ searchCircle' = IF Falsy(searchCircle) THEN searchCircle ELSE Null
    /\ UNCHANGED <<layers, viewLayers, currentSearchPoint, listeners, lastToast,
                   lastSearch, controlVars, orphans>>

(***************************************************************************)
(* UIView                                                                  *)
(***************************************************************************)
NoCheckboxes == [k \in {} |-> FALSE]

\* renderLayerControl(layers, container): one checkbox for each layer, with
\* checkbox.checked = config.visible !== false
renderLayerControl(ls) ==
    [layerId \in {ls[i].name : i \in 1..Len(ls)} |->
        ls[LayerIndex(ls, layerId)].visible # FALSE]

Toast(message, type) == [message |-> message, type |-> type, count |-> 0, radius |-> 0]

\* `Found ${filtered.features.length} features within ${radiusKm}km`
FoundToast(count, radiusKm) ==
    [message |-> "Found", type |-> "success", count |-> count, radius |-> radiusKm]

(***************************************************************************)
(* AppController: the radius search                                        *)
(***************************************************************************)
SearchResults == "geojson-search-results"

performSpatialSearch(radiusKm) ==
    IF Falsy(currentSearchPoint)
    THEN /\ lastToast' = Toast("Click on the map to set search center", "info")
         /\ lastSearch' = [radius |-> radiusKm, tested |-> 0]
         /\ UNCHANGED <<layers, viewLayers, searchCircle, currentSearchPoint, listeners,
                        controlVars, orphans>>
    ELSE IF Falsy(LayerData("geojson-local"))
    THEN /\ lastToast' = Toast("No data available for search", "error")
         /\ lastSearch' = [radius |-> radiusKm, tested |-> 0]
         /\ UNCHANGED <<layers, viewLayers, searchCircle, currentSearchPoint, listeners,
                        controlVars, orphans>>
    ELSE LET filtered ==
                 filterByDistance(LayerData("geojson-local"), currentSearchPoint, radiusKm)
         IN  IF filtered.threw
             THEN /\ lastToast' = Toast("Search failed", "error")
                  /\ lastSearch' = [radius |-> radiusKm, tested |-> filtered.tested]
                  /\ UNCHANGED <<layers, viewLayers, searchCircle, currentSearchPoint,
                                 listeners, controlVars, orphans>>
             ELSE /\ viewLayers' =
                         addGeoJSONLayer(removeLayer(viewLayers, SearchResults),
                                         SearchResults,
                                         FeatureCollection(filtered.features))
                  /\ orphans' = OrphansAfterAdd(removeLayer(viewLayers, SearchResults),
                                                orphans, SearchResults)
                  /\ searchCircle' = drawSearchRadius(currentSearchPoint, radiusKm)
                  /\ lastToast' = FoundToast(Len(filtered.features), radiusKm)
                  /\ lastSearch' = [radius |-> radiusKm, tested |-> filtered.tested]
                  /\ UNCHANGED <<layers, currentSearchPoint, listeners, controlVars>>

\* a click on the map: the handler of this.mapView.map.on('click', ...) runs
\* if it has been registered
MapClick(latlng) ==
    IF "click" \in listeners
    THEN /\ currentSearchPoint' = latlng
         /\ UNCHANGED <<layers, viewLayers, searchCircle, listeners, lastToast,
                        lastSearch, controlVars, orphans>>
    ELSE UNCHANGED pageVars

\* the Search button: emit('spatial-search', { radius }) calls the listeners
\* registered for the event, if any
SpatialSearchEvent(radius) ==
    IF "spatial-search" \in listeners
    THEN performSpatialSearch(radius)
    ELSE UNCHANGED pageVars

\* the Clear button: emit('clear-search', {})
ClearSearchEvent ==
    IF "clear-search" \in listeners
    THEN clearSearchVisualization
    ELSE UNCHANGED pageVars

\* the user changes a checkbox of the layer control: the browser flips it, then
\* the change handler runs emit('toggle-layer', { layerId, visible }) with
\* visible the new state of the checkbox
ToggleLayerEvent(layerId) ==
    /\ layerId \in DOMAIN checked
    /\ checked' = [checked EXCEPT ![layerId] = ~checked[layerId]]
    /\ IF "toggle-layer" \in listeners
       THEN /\ layers' = toggleLayer(layers, layerId)
            /\ viewLayers' = toggleLayerVisibility(viewLayers, layerId, ~checked[layerId])
       ELSE UNCHANGED <<layers, viewLayers>>
    /\ UNCHANGED <<searchCircle, currentSearchPoint, listeners, lastToast, lastSearch,
                   dataSources, loading, orphans>>

AllListeners == {"toggle-layer", "spatial-search", "clear-search", "click"}

\* setupDataSources: the three layers of the bundled application
RegisteredLayers ==
    addLayer(addLayer(addLayer(<<>>, "geojson-local", TRUE),
                      "ogc-api-external", FALSE),
             "supabase-locations", FALSE)

NoSearch == [radius |-> 0, tested |-> 0]

\* setupDataSources: the three sources of the bundled application
BundleSources ==
    registerSource(
        registerSource(
            registerSource(NoSources, "geojson-local",
                           SourceConfig("geojson", <<"./data/geojson/sample.geojson">>)),
            "ogc-api-external",
            SourceConfig("ogc-api", <<"https://ws.geonorge.no/adresser/v1/sok">>)),
        "supabase", SourceConfig("supabase", <<"https://your-project.supabase.co">>))

(***************************************************************************)
(* AppController.init() of the bundled app.js                              *)
(***************************************************************************)
Obj(fields) == [t |-> "object", o |-> fields]

Str(text) == [t |-> "string", s |-> text]

\* one record of the Kartverket response
AddressRecord(representasjonspunkt, adressetekst) ==
    [representasjonspunkt |-> representasjonspunkt, adressetekst |-> adressetekst]

\* "representasjonspunkt": {"lon": lon, "lat": lat}
Representasjonspunkt(lon, lat) == Obj([lon |-> Num(lon), lat |-> Num(lat)])

\* "representasjonspunkt": {}
EmptyPunkt == Obj([lon |-> Undefined, lat |-> Undefined])

Kirkeveien == AddressRecord(Representasjonspunkt(11, 60), "Kirkeveien 1")

Kirkegata == AddressRecord(Representasjonspunkt(5, 60), "Kirkegata 2")

\* a record that carries no representasjonspunkt
RecordWithoutPunkt == AddressRecord(Undefined, "Kirkebakken 3")

RecordWithEmptyPunkt == AddressRecord(EmptyPunkt, "Kirkestien 4")

Records == {Kirkeveien, Kirkegata, RecordWithoutPunkt, RecordWithEmptyPunkt}

Adresser == UNION {[1..n -> Records] : n \in 0..MaxRecords}

\* what awaiting fetchOGCAPI gives: the parsed body (null, an object without
\* "adresser", or an object with the records), or the exception it rethrows
OGCOutcomes ==
    {[t |-> "rejected", adresser |-> <<>>], [t |-> "null", adresser |-> <<>>],
     [t |-> "noAdresser", adresser |-> <<>>]}
    \cup {[t |-> "object", adresser |-> a] : a \in Adresser}

\* the callback of ogcResponse.adresser.map
AddressFeature(addr) ==
    [type |-> "Feature",
     geometry |-> Geometry("Point", Arr(<<addr.representasjonspunkt.o.lon,
                                          addr.representasjonspunkt.o.lat>>)),
     properties |-> [navn |-> addr.adressetekst]]

\* addr.representasjonspunkt.lon throws a TypeError when there is no
\* representasjonspunkt
AddressThrows(addr) == addr.representasjonspunkt.t \in {"undefined", "null"}

\* ogcResponse.adresser.map(...): the features, or the exception of the callback
AddressFeatures(adresser) ==
    IF \E i \in 1..Len(adresser) : AddressThrows(adresser[i])
    THEN [threw |-> TRUE, features |-> <<>>]
    ELSE [threw |-> FALSE,
          features |-> [i \in 1..Len(adresser) |-> AddressFeature(adresser[i])]]

\* `Loaded ${n} addresses from Kartverket Adresser API` and
\* `Loaded ${n} locations from PostGIS database`
LoadedToast(count, what) ==
    [message |-> what, type |-> "success", count |-> count, radius |-> 0]

\* init() up to the first await of loadLayers: setupDataSources and the
\* embedded collection window.GEOJSON_DATA
LoadLocalLayer(geojsonData) ==
    /\ pc = "start"
    /\ layers' = setLayerData(RegisteredLayers, "geojson-local", geojsonData)
    /\ viewLayers' = addGeoJSONLayer(viewLayers, "geojson-local", geojsonData)
    /\ orphans' = OrphansAfterAdd(viewLayers, orphans, "geojson-local")
    /\ loading' = TRUE
    /\ dataSources' = BundleSources
    /\ checked' = renderLayerControl(RegisteredLayers)
    /\ pc' = "ogc"
    /\ requests' = [requests EXCEPT !.ogc = "pending"]
    /\ UNCHANGED <<searchCircle, currentSearchPoint, listeners, lastToast, lastSearch,
                   initResult>>

\* loadLayers from the settlement of fetchOGCAPI to the next await.  No
\* listener is registered yet, so nothing runs while the request is pending.
LoadOGCLayer(ogcResponse) ==
    /\ pc = "ogc"
    /\ IF ogcResponse.t = "rejected"
       THEN /\ lastToast' = Toast("Kartverket API data unavailable", "warning")
            /\ UNCHANGED <<layers, viewLayers, orphans>>
       ELSE IF ogcResponse.t = "object" /\ Len(ogcResponse.adresser) > 0
       THEN LET converted == AddressFeatures(ogcResponse.adresser)
                ogcData == FeatureCollection(converted.features)
            IN  IF converted.threw
                THEN /\ lastToast' = Toast("Kartverket API data unavailable", "warning")
                     /\ UNCHANGED <<layers, viewLayers, orphans>>
                ELSE /\ layers' = setLayerData(layers, "ogc-api-external", ogcData)
                     /\ orphans' =
                            OrphansAfterAdd(viewLayers, orphans, "ogc-api-external")
                     /\ viewLayers' =
                            addGeoJSONLayer(viewLayers, "ogc-api-external", ogcData)
                     /\ lastToast' = LoadedToast(Len(ogcData.features), "addresses")
       ELSE UNCHANGED <<layers, viewLayers, lastToast, orphans>>
    /\ pc' = "supabase"
    /\ requests' =
          [ogc |-> IF ogcResponse.t = "rejected" THEN "rejected" ELSE "resolved",
           supabase |-> IF requests.supabase = "noClient" THEN "noClient"
                        ELSE "pending"]
    /\ UNCHANGED <<searchCircle, currentSearchPoint, listeners, lastSearch, initResult,
                   controlVars>>

\* the text of a geometry column, as a sequence of tokens
GeometryText == <<"{", "coordinates", ":", "[", "11", ",", "60", "]", "}">>

EmptyObjectText == <<"{", "}">>

TruncatedText == <<"{", "coordinates", ":", "[", "11", ",">>

IsNumeral(token) == token \in {"5", "11", "60"}

NumeralValue(token) == CASE token = "5" -> 5 [] token = "11" -> 11 [] token = "60" -> 60

\* JSON.parse, for the texts of a geometry column: the object with its
\* coordinates (undefined if it has none), or a SyntaxError
JSONparse(text) ==
    IF Len(text) = 9 /\ text[1] = "{" /\ text[2] = "coordinates" /\ text[3] = ":"
       /\ text[4] = "[" /\ IsNumeral(text[5]) /\ text[6] = ","
       /\ IsNumeral(text[7]) /\ text[8] = "]" /\ text[9] = "}"
    THEN [threw |-> FALSE,
          coordinates |-> Arr(<<Num(NumeralValue(text[5])), Num(NumeralValue(text[7]))>>)]
    ELSE IF text = <<"{", "}">>
    THEN [threw |-> FALSE, coordinates |-> Undefined]
    ELSE [threw |-> TRUE, coordinates |-> Undefined]

\* rows of the locations table: geometry is missing, a text, or an object
Row(geometry) == [geometry |-> geometry]

Rows ==
    {Row(Undefined), Row(Str(GeometryText)), Row(Str(TruncatedText)),
     Row(Obj([coordinates |-> Position(5, 60)])), Row(Obj([coordinates |-> Undefined]))}

\* window.SUPABASE_CLIENT is not set, the query fails, or it gives rows
SupabaseOutcomes ==
    {[t |-> "noClient", rows |-> <<>>], [t |-> "rejected", rows |-> <<>>]}
    \cup {[t |-> "rows", rows |-> r] : r \in UNION {[1..n -> Rows] : n \in 0..MaxRows}}

\* a text that is not JSON makes JSON.parse throw
RowThrows(item) ==
    item.geometry.t = "string" /\ JSONparse(item.geometry.s).threw

\* let coords = [0, 0]; if (item.geometry) { ... }
RowCoordinates(item) ==
    IF item.geometry.t = "string" THEN JSONparse(item.geometry.s).coordinates
    ELSE IF item.geometry.t = "object" /\ ~Falsy(item.geometry.o.coordinates)
    THEN item.geometry.o.coordinates
    ELSE Arr(<<Num(0), Num(0)>>)

\* the callback of supabaseData.map
RowFeature(item) == Feature(Geometry("Point", RowCoordinates(item)))

RowFeatures(rows) ==
    IF \E i \in 1..Len(rows) : RowThrows(rows[i])
    THEN [threw |-> TRUE, features |-> <<>>]
    ELSE [threw |-> FALSE, features |-> [i \in 1..Len(rows) |-> RowFeature(rows[i])]]

\* loadLayers from the settlement of querySupabaseWithSpatial to its return
LoadSupabaseLayer(supabase) ==
    /\ pc = "supabase"
    /\ supabase.t = "noClient" <=> requests.supabase = "noClient"
    /\ IF supabase.t = "rows" /\ Len(supabase.rows) > 0
          /\ ~RowFeatures(supabase.rows).threw
       THEN LET geojsonFromSupabase ==
                    FeatureCollection(RowFeatures(supabase.rows).features)
            IN  /\ layers' =
                       setLayerData(layers, "supabase-locations", geojsonFromSupabase)
                /\ viewLayers' = addGeoJSONLayer(viewLayers, "supabase-locations",
                                                 geojsonFromSupabase)
                /\ orphans' = OrphansAfterAdd(viewLayers, orphans, "supabase-locations")
                /\ lastToast' = LoadedToast(Len(geojsonFromSupabase.features), "locations")
       ELSE UNCHANGED <<layers, viewLayers, lastToast, orphans>>
    /\ pc' = "listeners"
    /\ requests' =
          [requests EXCEPT !.supabase = CASE supabase.t = "noClient" -> "noClient"
                                          [] supabase.t = "rejected" -> "rejected"
                                          [] OTHER -> "resolved"]
    /\ UNCHANGED <<searchCircle, currentSearchPoint, listeners, lastSearch, initResult,
                   controlVars>>

\* init() that ends without registering the listeners
FinishInitWithoutListeners ==
    /\ pc = "listeners"
    /\ lastToast' = Toast("Map loaded successfully!", "success")
    /\ loading' = FALSE
    /\ pc' = "ready"
    /\ initResult' = "fulfilled"
    /\ UNCHANGED <<layers, viewLayers, searchCircle, currentSearchPoint, lastSearch,
                   requests, listeners, dataSources, checked, orphans>>

\* init() after loadLayers: setupEventListeners and the success toast
FinishInit ==
    /\ pc = "listeners"
    /\ listeners' = AllListeners
    /\ lastToast' = Toast("Map loaded successfully!", "success")
    /\ loading' = FALSE
    /\ pc' = "ready"
    /\ initResult' = "fulfilled"
    /\ UNCHANGED <<layers, viewLayers, searchCircle, currentSearchPoint, lastSearch,
                   requests, dataSources, checked, orphans>>

(***************************************************************************)
(* DataModel: calls of registerSource                                      *)
(***************************************************************************)
\* the names the applications register their sources under
SourceNames == {"geojson-local", "ogc-api-external", "supabase"}

SourceConfigs ==
    {SourceConfig(type, url) : type \in {"geojson", "ogc-api"},
                               url \in {<<"./a.geojson">>, <<"./b.geojson">>}}

\* dataModel.registerSource(name, config)
RegisterSourceCall(name, config) ==
    /\ dataSources' = registerSource(dataSources, name, config)
    /\ returned' = Undefined
    /\ pc' = "registerSource"

(***************************************************************************)
(* MapModel: calls of its methods.  pc names the method called last and    *)
(* returned holds what the call returned.                                  *)
(***************************************************************************)
Bool(b) == [t |-> "boolean", b |-> b]

\* the layer ids of the application
LayerIds == {"geojson-local", "ogc-api-external", "supabase-locations"}

\* data given to setLayerData
LayerCollections == {FeatureCollection(<<>>), FeatureCollection(<<OsloFeature>>)}

\* mapModel.addLayer(name, { visible })
AddLayerCall(name, visible) ==
    /\ layers' = addLayer(layers, name, visible)
    /\ returned' = Undefined
    /\ pc' = "addLayer"

\* mapModel.toggleLayer(name)
ToggleLayerCall(name) ==
    /\ layers' = toggleLayer(layers, name)
    /\ returned' = Bool(toggleLayerReturn(layers, name))
    /\ pc' = "toggleLayer"

\* mapModel.setLayerData(layerName, data)
SetLayerDataCall(layerName, data) ==
    /\ layers' = setLayerData(layers, layerName, data)
    /\ returned' = Undefined
    /\ pc' = "setLayerData"

\* mapModel.getVisibleLayers()
GetVisibleLayersCall ==
    /\ returned' = Arr(getVisibleLayers(layers))
    /\ pc' = "getVisibleLayers"
    /\ UNCHANGED layers

(***************************************************************************)
(* DataModel.querySupabaseWithinDistance and its fallback                  *)
(***************************************************************************)
\* what awaiting a Supabase request gives: the call throws (the client has no
\* such method, the promise rejects), or it answers { data, error }
Answer(data, error) == [t |-> "answer", data |-> data, error |-> error]

QueryThrows == [t |-> "throws", data |-> Null, error |-> Str(<<"TypeError">>)]

QueryErrors == {Str(<<"PGRST202">>), Str(<<"42P01">>)}

QueryResponses ==
    {QueryThrows}
    \cup {Answer(Null, e) : e \in QueryErrors}
    \cup {Answer(Null, Null)}
    \cup {Answer(Arr(r), Null) : r \in UNION {[1..n -> Rows] : n \in 0..MaxRows}}

\* the await throws, or `if (error) throw error`
QueryFailed(response) == response.t = "throws" \/ ~Falsy(response.error)

\* data || []
OrEmptyArray(data) == IF Falsy(data) THEN Arr(<<>>) ELSE data

\* the outcome of a call that ended by throwing
Thrown(error) == [t |-> "thrown", error |-> error]

\* querySupabaseWithinDistance(client, tableName, lng, lat, distanceMeters) up
\* to its await: supabaseClient.rpc('find_nearby_locations', ...)
querySupabaseWithinDistance ==
    /\ pc \in {"idle", "done"}
    /\ pc' = "rpc"
    /\ requests' = [rpc |-> "pending", select |-> "none"]
    /\ UNCHANGED <<searchVars, initResult, returned>>

\* the RPC has settled and a failure is thrown to the caller
RpcSettlesWithoutFallback(response) ==
    /\ pc = "rpc"
    /\ pc' = "done"
    /\ requests' = [requests EXCEPT !.rpc = IF QueryFailed(response) THEN "failed"
                                            ELSE "answered"]
    /\ returned' = IF QueryFailed(response) THEN Thrown(response.error)
                   ELSE OrEmptyArray(response.data)
    /\ UNCHANGED <<searchVars, initResult>>

\* the RPC has settled: its rows are returned, or the catch block calls
\* querySupabaseWithSpatial, which runs up to its await of the select
RpcSettles(response) ==
    /\ pc = "rpc"
    /\ IF QueryFailed(response)
       THEN /\ pc' = "select"
            /\ requests' = [rpc |-> "failed", select |-> "pending"]
            /\ UNCHANGED returned
       ELSE /\ pc' = "done"
            /\ requests' = [requests EXCEPT !.rpc = "answered"]
            /\ returned' = OrEmptyArray(response.data)
    /\ UNCHANGED <<searchVars, initResult>>

\* the select of querySupabaseWithSpatial has settled: its rows are returned
\* through both functions, or its error is rethrown through both
SelectSettles(response) ==
    /\ pc = "select"
    /\ pc' = "done"
    /\ requests' = [requests EXCEPT !.select = IF QueryFailed(response) THEN "failed"
                                               ELSE "answered"]
    /\ returned' = IF QueryFailed(response) THEN Thrown(response.error)
                   ELSE OrEmptyArray(response.data)
    /\ UNCHANGED <<searchVars, initResult>>

(***************************************************************************)
(* AppController.init() of the ES-module application (AppController.js)    *)
(***************************************************************************)
\* the url of the source 'geojson-local'
SampleUrl == <<"./data/geojson/sample.geojson">>

\* setupDataSources: the two sources of the ES-module application
ModuleSources ==
    registerSource(
        registerSource(NoSources, "geojson-local", SourceConfig("geojson", SampleUrl)),
        "geonorge-api", SourceConfig("ogc-api", <<"https://www.geonorge.no/wfs">>))

\* setupDataSources: the two layers of the ES-module application
ModuleLayers == addLayer(addLayer(<<>>, "geojson-local", TRUE), "geonorge-api", FALSE)

\* the collection a response body parses to
GeoJSONBody(data) ==
    IF data = "d1" THEN FeatureCollection(<<OsloFeature>>)
    ELSE FeatureCollection(<<OsloFeature, TrondheimFeature>>)

\* the call of fetchGeoJSON that loadLayers awaits
IsLoadLayersCall(i) ==
    calls[i].method = "fetchGeoJSON" /\ calls[i].request = SampleUrl

\* init() up to the await in loadLayers: setupDataSources, setupLayerControl and
\* the call of fetchGeoJSON
ModuleInit ==
    /\ pc = "start"
    /\ loading' = TRUE
    /\ dataSources' = ModuleSources
    /\ layers' = ModuleLayers
    /\ checked' = renderLayerControl(ModuleLayers)
    /\ fetchGeoJSON(SampleUrl)
    /\ pc' = "local"
    /\ UNCHANGED <<viewLayers, searchCircle, currentSearchPoint, listeners, lastToast,
                   lastSearch, requests, initResult, orphans>>

\* fetchGeoJSON has returned the collection: loadLayers stores and shows it,
\* init() registers the listeners, shows the success toast and returns
LocalLayerFetched(i) ==
    /\ pc = "local"
    /\ IsLoadLayersCall(i)
    /\ calls[i].pc = "resolved"
    /\ layers' = setLayerData(layers, "geojson-local", GeoJSONBody(calls[i].result))
    /\ viewLayers' =
          addGeoJSONLayer(viewLayers, "geojson-local", GeoJSONBody(calls[i].result))
    /\ orphans' = OrphansAfterAdd(viewLayers, orphans, "geojson-local")
    /\ listeners' = AllListeners
    /\ loading' = FALSE
    /\ lastToast' = Toast("Map loaded successfully!", "success")
    /\ pc' = "ready"
    /\ initResult' = "fulfilled"
    /\ UNCHANGED <<searchCircle, currentSearchPoint, lastSearch, requests, dataSources,
                   checked>>

\* a catch block that leaves the loading indicator shown
LocalLayerFailedIndicatorShown(i) ==
    /\ pc = "local"
    /\ IsLoadLayersCall(i)
    /\ calls[i].pc = "rejected"
    /\ lastToast' = Toast("Error loading map", "error")
    /\ pc' = "error"
    /\ initResult' = "fulfilled"
    /\ UNCHANGED <<layers, viewLayers, searchCircle, currentSearchPoint, listeners,
                   lastSearch, requests, dataSources, checked, orphans, loading>>

\* a catch block that registers the listeners all the same
LocalLayerFailedListenersRegistered(i) ==
    /\ pc = "local"
    /\ IsLoadLayersCall(i)
    /\ calls[i].pc = "rejected"
    /\ listeners' = AllListeners
    /\ loading' = FALSE
    /\ lastToast' = Toast("Error loading map", "error")
    /\ pc' = "error"
    /\ initResult' = "fulfilled"
    /\ UNCHANGED <<layers, viewLayers, searchCircle, currentSearchPoint, lastSearch,
                   requests, dataSources, checked, orphans>>

\* fetchGeoJSON has thrown: loadLayers rethrows, the catch block of init() shows
\* the error toast, and init() returns normally
LocalLayerFailed(i) ==
    /\ pc = "local"
    /\ IsLoadLayersCall(i)
    /\ calls[i].pc = "rejected"
    /\ loading' = FALSE
    /\ lastToast' = Toast("Error loading map", "error")
    /\ pc' = "error"
    /\ initResult' = "fulfilled"
    /\ UNCHANGED <<layers, viewLayers, searchCircle, currentSearchPoint, listeners,
                   lastSearch, requests, dataSources, checked, orphans>>

(***************************************************************************)
(* Specifications                                                          *)
(***************************************************************************)
\* no source is registered, no layer control is rendered, no loading indicator
\* is shown and the map holds no layer
NoPage ==
    /\ dataSources = NoSources
    /\ checked = NoCheckboxes
    /\ loading = FALSE
    /\ orphans = NoOrphans

\* no application has been started: the DataModel is used on its own
NoApplication ==
    /\ NoPage
    /\ layers = <<>>
    /\ viewLayers = NoViewLayers
    /\ searchCircle = Undefined
    /\ currentSearchPoint = Null
    /\ listeners = {}
    /\ lastToast = Toast("", "none")
    /\ lastSearch = NoSearch
    /\ pc = "none"
    /\ requests = [ogc |-> "none", supabase |-> "none"]
    /\ initResult = "none"
    /\ returned = Undefined

NewDataModel ==
    /\ cache = EmptyMap
    /\ calls = <<>>
    /\ okKeys = {}

InitCache == NewDataModel /\ NoApplication

NextCache ==
    \/ \E url \in Urls : fetchGeoJSON(url) /\ UNCHANGED appVars
    \/ \E url \in Urls, params \in Params :
          fetchOGCAPI(url, params) /\ UNCHANGED appVars
    \/ \E url \in Urls, params \in Params :
          BundleFetchOGCAPI(url, params) /\ UNCHANGED appVars
    \/ \E i \in CallIds : FetchRejects(i) /\ UNCHANGED appVars
    \/ \E i \in CallIds, ok \in BOOLEAN : FetchResponds(i, ok) /\ UNCHANGED appVars
    \/ \E i \in CallIds : JsonRejects(i) /\ UNCHANGED appVars
    \/ \E i \in CallIds, data \in Data : JsonResolves(i, data) /\ UNCHANGED appVars
    \/ clearCache /\ UNCHANGED appVars

SpecCache == InitCache /\ [][NextCache]_vars

\* loadLayers: setLayerData('geojson-local', geojsonData) and
\* addGeoJSONLayer('geojson-local', geojsonData)
LocalLayerLoaded(geojsonData) ==
    /\ layers = setLayerData(RegisteredLayers, "geojson-local", geojsonData)
    /\ viewLayers = addGeoJSONLayer(NoViewLayers, "geojson-local", geojsonData)

\* the bundled application after init() has finished: window.GEOJSON_DATA (any
\* bounded collection, or not set) is the local layer's data and is on the map,
\* the address request has failed and there is no Supabase client, the
\* listeners are registered, no search point is set
InitSearch ==
    /\ NewDataModel
    /\ dataSources = BundleSources
    /\ checked = renderLayerControl(RegisteredLayers)
    /\ loading = FALSE
    /\ orphans = NoOrphans
    /\ \/ \E geojsonData \in Collections : LocalLayerLoaded(geojsonData)
       \/ LocalLayerLoaded(Undefined)
    /\ searchCircle = Undefined
    /\ currentSearchPoint = Null
    /\ listeners = AllListeners
    /\ lastToast = Toast("Map loaded successfully!", "success")
    /\ lastSearch = NoSearch
    /\ pc = "ready"
    /\ requests = [ogc |-> "rejected", supabase |-> "noClient"]
    /\ initResult = "fulfilled"
    /\ returned = Undefined

NextSearch ==
    \/ \E latlng \in Centers : MapClick(latlng) /\ UNCHANGED <<cacheVars, initVars, returned>>
    \/ \E radius \in Radii : SpatialSearchEvent(radius) /\ UNCHANGED <<cacheVars, initVars, returned>>
    \/ ClearSearchEvent /\ UNCHANGED <<cacheVars, initVars, returned>>

SpecSearch == InitSearch /\ [][NextSearch]_vars

\* the page has been loaded and init() is about to run
InitLoad ==
    /\ NewDataModel
    /\ NoPage
    /\ layers = <<>>
    /\ viewLayers = NoViewLayers
    /\ searchCircle = Undefined
    /\ currentSearchPoint = Null
    /\ listeners = {}
    /\ lastToast = Toast("", "none")
    /\ lastSearch = NoSearch
    /\ pc = "start"
    /\ requests \in {[ogc |-> "none", supabase |-> c] : c \in {"none", "noClient"}}
    /\ initResult = "pending"
    /\ returned = Undefined

\* window.GEOJSON_DATA: not set, or a collection of at most one feature
EmbeddedCollections == {c \in Collections : Len(c.features) <= 1}

NextLoad ==
    \/ \E geojsonData \in EmbeddedCollections :
          LoadLocalLayer(geojsonData) /\ UNCHANGED <<cacheVars, returned>>
    \/ LoadLocalLayer(Undefined) /\ UNCHANGED <<cacheVars, returned>>
    \/ \E ogcResponse \in OGCOutcomes : LoadOGCLayer(ogcResponse) /\ UNCHANGED <<cacheVars, returned>>
    \/ \E supabase \in SupabaseOutcomes :
          LoadSupabaseLayer(supabase) /\ UNCHANGED <<cacheVars, returned>>
    \/ FinishInit /\ UNCHANGED <<cacheVars, returned>>

SpecLoad == InitLoad /\ [][NextLoad]_vars

\* the page of the ES-module application has been loaded and init() is about
\* to run
InitModule ==
    /\ NewDataModel
    /\ NoPage
    /\ layers = <<>>
    /\ viewLayers = NoViewLayers
    /\ searchCircle = Undefined
    /\ currentSearchPoint = Null
    /\ listeners = {}
    /\ lastToast = Toast("", "none")
    /\ lastSearch = NoSearch
    /\ pc = "start"
    /\ requests = [ogc |-> "none", supabase |-> "none"]
    /\ initResult = "pending"
    /\ returned = Undefined

LayerNames == {"geojson-local", "geonorge-api"}

NextModule ==
    \/ ModuleInit /\ UNCHANGED returned
    \/ \E i \in CallIds : FetchRejects(i) /\ UNCHANGED appVars
    \/ \E i \in CallIds, ok \in BOOLEAN : FetchResponds(i, ok) /\ UNCHANGED appVars
    \/ \E i \in CallIds : JsonRejects(i) /\ UNCHANGED appVars
    \/ \E i \in CallIds, data \in Data : JsonResolves(i, data) /\ UNCHANGED appVars
    \/ \E i \in CallIds : LocalLayerFetched(i) /\ UNCHANGED <<cacheVars, returned>>
    \/ \E i \in CallIds : LocalLayerFailed(i) /\ UNCHANGED <<cacheVars, returned>>
    \/ \E layerId \in LayerNames :
          ToggleLayerEvent(layerId) /\ UNCHANGED <<cacheVars, initVars, returned>>
    \/ \E latlng \in Centers :
          MapClick(latlng) /\ UNCHANGED <<cacheVars, initVars, returned>>
    \/ \E radius \in Radii :
          SpatialSearchEvent(radius) /\ UNCHANGED <<cacheVars, initVars, returned>>
    \/ ClearSearchEvent /\ UNCHANGED <<cacheVars, initVars, returned>>

SpecModule == InitModule /\ [][NextModule]_vars

\* the steps of init() and of the request it awaits
ModuleInitSteps ==
    \/ ModuleInit /\ UNCHANGED returned
    \/ \E i \in CallIds : FetchRejects(i) /\ UNCHANGED appVars
    \/ \E i \in CallIds, ok \in BOOLEAN : FetchResponds(i, ok) /\ UNCHANGED appVars
    \/ \E i \in CallIds : JsonRejects(i) /\ UNCHANGED appVars
    \/ \E i \in CallIds, data \in Data : JsonResolves(i, data) /\ UNCHANGED appVars
    \/ \E i \in CallIds : LocalLayerFetched(i) /\ UNCHANGED <<cacheVars, returned>>
    \/ \E i \in CallIds : LocalLayerFailed(i) /\ UNCHANGED <<cacheVars, returned>>

\* init() is called, every issued fetch is answered or fails at some time, and
\* the continuation of an await runs once its promise has settled, whatever
\* the user does meanwhile
SpecModuleFair == SpecModule /\ WF_vars(ModuleInitSteps)

\* a DataModel on which querySupabaseWithinDistance is called, one call at a
\* time
InitQuery ==
    /\ NewDataModel
    /\ NoPage
    /\ layers = <<>>
    /\ viewLayers = NoViewLayers
    /\ searchCircle = Undefined
    /\ currentSearchPoint = Null
    /\ listeners = {}
    /\ lastToast = Toast("", "none")
    /\ lastSearch = NoSearch
    /\ pc = "idle"
    /\ requests = [rpc |-> "none", select |-> "none"]
    /\ initResult = "none"
    /\ returned = Undefined

NextQuery ==
    \/ querySupabaseWithinDistance /\ UNCHANGED <<cacheVars, controlVars, orphans>>
    \/ \E response \in QueryResponses :
          RpcSettles(response) /\ UNCHANGED <<cacheVars, controlVars, orphans>>
    \/ \E response \in QueryResponses :
          SelectSettles(response) /\ UNCHANGED <<cacheVars, controlVars, orphans>>

SpecQuery == InitQuery /\ [][NextQuery]_vars

\* a new MapModel: no layer is registered
InitLayers ==
    /\ NewDataModel
    /\ NoPage
    /\ layers = <<>>
    /\ viewLayers = NoViewLayers
    /\ searchCircle = Undefined
    /\ currentSearchPoint = Null
    /\ listeners = {}
    /\ lastToast = Toast("", "none")
    /\ lastSearch = NoSearch
    /\ pc = "new"
    /\ requests = [ogc |-> "none", supabase |-> "none"]
    /\ initResult = "none"
    /\ returned = Undefined

\* what the methods of MapModel leave alone
notMapModel ==
    <<cacheVars, viewLayers, searchCircle, currentSearchPoint, listeners, lastToast,
      lastSearch, requests, initResult, controlVars, orphans>>

NextLayers ==
    \/ \E name \in LayerIds, visible \in BOOLEAN :
          AddLayerCall(name, visible) /\ UNCHANGED notMapModel
    \/ \E name \in LayerIds : ToggleLayerCall(name) /\ UNCHANGED notMapModel
    \/ \E layerName \in LayerIds, data \in LayerCollections :
          SetLayerDataCall(layerName, data) /\ UNCHANGED notMapModel
    \/ GetVisibleLayersCall /\ UNCHANGED notMapModel

SpecLayers == InitLayers /\ [][NextLayers]_vars

\* a new DataModel on which registerSource is called
InitSources == NewDataModel /\ NoApplication

NextSources ==
    \E name \in SourceNames, config \in SourceConfigs :
        RegisterSourceCall(name, config)
        /\ UNCHANGED <<cacheVars, searchVars, requests, initResult, checked, loading,
                       orphans>>

SpecSources == InitSources /\ [][NextSources]_vars

\* places of the map, as <<latitude, longitude>>: Oslo, Trondheim, Bergen and
\* Cape Town
Places == {<<60, 11>>, <<63, 10>>, <<60, 5>>, <<-34, 18>>}

\* the Point feature at a place: coordinates are [lng, lat]
FeatureAt(place) == PointFeature(place[2], place[1])

\* e.latlng of a click on a place: [lat, lng]
CenterAt(place) == Arr(<<Num(place[1]), Num(place[2])>>)

\* window.GEOJSON_DATA holding one or two Point features
PlaceCollections ==
    {FeatureCollection(<<FeatureAt(p)>>) : p \in Places}
    \cup {FeatureCollection(<<FeatureAt(p), FeatureAt(q)>>) : p, q \in Places}

\* radii in km, next to the distances between the places
PlaceRadii == {-5, 0, 1, 329, 331, 420, 11000}

\* the bundled application after init() has finished, with Point features at
\* the places as the data of the local layer
InitDistance ==
    /\ NewDataModel
    /\ dataSources = BundleSources
    /\ checked = renderLayerControl(RegisteredLayers)
    /\ loading = FALSE
    /\ orphans = NoOrphans
    /\ \E geojsonData \in PlaceCollections : LocalLayerLoaded(geojsonData)
    /\ searchCircle = Undefined
    /\ currentSearchPoint = Null
    /\ listeners = AllListeners
    /\ lastToast = Toast("Map loaded successfully!", "success")
    /\ lastSearch = NoSearch
    /\ pc = "ready"
    /\ requests = [ogc |-> "rejected", supabase |-> "noClient"]
    /\ initResult = "fulfilled"
    /\ returned = Undefined

NextDistance ==
    \/ \E place \in Places :
          MapClick(CenterAt(place)) /\ UNCHANGED <<cacheVars, initVars, returned>>
    \/ \E radius \in PlaceRadii :
          SpatialSearchEvent(radius) /\ UNCHANGED <<cacheVars, initVars, returned>>
    \/ ClearSearchEvent /\ UNCHANGED <<cacheVars, initVars, returned>>

SpecDistance == InitDistance /\ [][NextDistance]_vars

\* init() of the bundled application with one embedded feature, while the user
\* changes checkboxes of the layer control; the address request fails or gives
\* one record, the Supabase query fails or gives one row
ControlOGCOutcomes ==
    {o \in OGCOutcomes : o.t = "rejected" \/ o.adresser = <<Kirkeveien>>}

ControlSupabaseOutcomes ==
    {o \in SupabaseOutcomes :
        o.t \in {"noClient", "rejected"}
        \/ o.rows = <<Row(Obj([coordinates |-> Position(5, 60)]))>>}

\* an event handler runs only when init() is suspended at an await of a request
\* or has returned
AwaitingOrFinished ==
    \/ pc = "ogc" /\ requests.ogc = "pending"
    \/ pc = "supabase" /\ requests.supabase = "pending"
    \/ pc = "ready"

NextControl ==
    \/ LoadLocalLayer(FeatureCollection(<<OsloFeature>>)) /\ UNCHANGED <<cacheVars, returned>>
    \/ \E ogcResponse \in ControlOGCOutcomes :
          LoadOGCLayer(ogcResponse) /\ UNCHANGED <<cacheVars, returned>>
    \/ \E supabase \in ControlSupabaseOutcomes :
          LoadSupabaseLayer(supabase) /\ UNCHANGED <<cacheVars, returned>>
    \/ FinishInit /\ UNCHANGED <<cacheVars, returned>>
    \/ \E layerId \in LayerIds :
          /\ AwaitingOrFinished
          /\ ToggleLayerEvent(layerId)
          /\ UNCHANGED <<cacheVars, initVars, returned>>

SpecControl == InitLoad /\ [][NextControl]_vars

\* every request is settled at some time and the continuation of an await runs
\* once its promise has settled
SpecLoadFair == SpecLoad /\ WF_vars(NextLoad)

(***************************************************************************)
(* Claims on the fetch cache                                               *)
(***************************************************************************)
ModuleCall(i) == calls[i].cls = "module"

\* C1: at most one load is in flight per cache key: no two calls of
\* fetchGeoJSON / fetchOGCAPI (DataModel.js) have a request outstanding for the
\* same key at the same time.
C1_AtMostOneInFlightPerKey ==
    \A i, j \in CallIds :
        (i # j /\ ModuleCall(i) /\ ModuleCall(j) /\ InFlight(i) /\ InFlight(j))
            => calls[i].key # calls[j].key

\* C2: a fetch made after a fetch of the same key completed successfully (no
\* failure of that key and no clearCache since) issues no network request and
\* returns the stored response.
C2_StoredResponseServed ==
    \A i \in CallIds :
        calls[i].priorOK => (~calls[i].issued /\ calls[i].pc = "resolved")

\* C3: when a load fails, the call is rejected with the error, the cache is
\* unchanged, and the cache has no entry for the key afterwards (so the next
\* fetch of the key loads again).
C3_FailedLoadLeavesNoEntry ==
    [][\A i \in CallIds :
          (ModuleCall(i) /\ InFlight(i) /\ calls'[i].pc = "rejected")
              => /\ calls'[i].result \in {"NetworkError", "HTTPError", "SyntaxError"}
                 /\ cache' = cache
                 /\ calls[i].key \notin DOMAIN cache']_vars

\* C4 (as claimed): an entry that has been written is never overwritten and
\* never removed, whatever DataModel operation runs.
C4_EntryNeverOverwrittenNorRemoved ==
    [][\A k \in DOMAIN cache : k \in DOMAIN cache' /\ cache'[k] = cache[k]]_vars

\* C4 (amended): the cache changes only in two ways: clearCache empties it, and
\* the successful completion of a load writes (or overwrites) the entry of that
\* load's key with the response; no fetch ever removes an entry, and a failed
\* load changes nothing.
C4_EntryRemovedOnlyByClearCache ==
    [][\/ cache' = cache
       \/ clearCache
       \/ \E i \in CallIds :
             /\ ModuleCall(i) /\ calls[i].pc = "json" /\ calls'[i].pc = "resolved"
             /\ cache' = MapSet(cache, calls[i].key, calls'[i].result)]_vars

\* C4 witness: two overlapping loads of one key both completed, with different
\* responses, and the entry holds the later one.
C4_Witness ==
    \E i, j \in CallIds :
        /\ i # j /\ ModuleCall(i) /\ ModuleCall(j)
        /\ calls[i].key = calls[j].key
        /\ calls[i].issued /\ calls[j].issued
        /\ calls[i].pc = "resolved" /\ calls[j].pc = "resolved"
        /\ calls[i].result # calls[j].result
        /\ calls[i].key \in DOMAIN cache

(***************************************************************************)
(* Claims on the radius search                                             *)
(***************************************************************************)
\* the collection the search runs on
LocalData == LayerData("geojson-local")

\* the local layer holds no data: nothing was stored for it
NoLocalData ==
    \A i \in 1..Len(layers) :
        layers[i].name = "geojson-local" => layers[i].data.t \in {"undefined", "null"}

\* the local layer holds a collection whose features all carry a geometry
LocalDataSearchable ==
    /\ ~NoLocalData
    /\ \A i \in 1..Len(LocalData.features) :
           LocalData.features[i].geometry.type \in {"Point", "LineString", "Polygon"}

\* the great-circle distance between two of the places of the model on a
\* sphere of radius 6371 km, in km rounded up (Oslo - Trondheim is 337.8 km);
\* p and q are <<latitude, longitude>>
GreatCircleKm(p, q) ==
    IF p = q THEN 0
    ELSE CASE {p, q} = {<<60, 11>>, <<63, 10>>} -> 338

\* the feature is a Point whose great-circle distance from point is <= radiusKm
TrulyWithin(feature, point, radiusKm) ==
    /\ feature.geometry.type = "Point"
    /\ GreatCircleKm(<<point.a[1].n, point.a[2].n>>,
                     <<feature.geometry.coordinates.a[2].n,
                       feature.geometry.coordinates.a[1].n>>) <= radiusKm

\* the features of the collection that are truly within the radius, in order
TrueMatches(geojson, point, radiusKm) ==
    LET Within(f) == TrulyWithin(f, point, radiusKm)
    IN  SelectSeq(geojson.features, Within)

\* s can be obtained from t by removing elements
RECURSIVE IsSubsequence(_, _)
IsSubsequence(s, t) ==
    IF s = <<>> THEN TRUE
    ELSE IF t = <<>> THEN FALSE
    ELSE IF Head(s) = Head(t) THEN IsSubsequence(Tail(s), Tail(t))
    ELSE IsSubsequence(s, Tail(t))

\* C5: a search with radiusKm <= 0 around a chosen center, over a layer without
\* data or with features that all carry a geometry, is rejected with an error
\* before any feature is distance-tested: the filter runs on no feature, no
\* result layer is added to the map and no radius circle is drawn.
C5_NonPositiveRadiusRejected ==
    [][\A radius \in Radii :
          (radius <= 0 /\ ~Falsy(currentSearchPoint)
           /\ (NoLocalData \/ LocalDataSearchable) /\ SpatialSearchEvent(radius))
             => /\ lastToast'.type = "error"
                /\ lastSearch'.tested = 0
                /\ viewLayers' = viewLayers
                /\ searchCircle' = searchCircle]_vars

\* C6: a search issued while the searched layer has no data never succeeds and,
\* once a center is chosen, fails with the no-data error; the filter runs on no
\* feature, and the result layer and the radius circle stay exactly as they were.
C6_NoDataSearchFails ==
    [][\A radius \in Radii :
          (NoLocalData /\ SpatialSearchEvent(radius))
             => /\ lastToast'.type # "success"
                /\ ~Falsy(currentSearchPoint)
                      => lastToast' = Toast("No data available for search", "error")
                /\ lastSearch'.tested = 0
                /\ viewLayers' = viewLayers
                /\ searchCircle' = searchCircle]_vars

\* C6 witness: a search around a chosen center has failed with the no-data error
C6_Witness ==
    /\ NoLocalData
    /\ ~Falsy(currentSearchPoint)
    /\ lastToast = Toast("No data available for search", "error")

\* C7: a search over a collection whose features all carry a geometry shows
\* exactly the features truly within radiusKm of the center (boundary included),
\* in the order of the collection, and reports their number; the result is a
\* function of the collection, the center and the radius alone.
C7_ResultIsTheOrderedMatches ==
    [][\A radius \in Radii :
          (LocalDataSearchable /\ ~Falsy(currentSearchPoint)
           /\ SpatialSearchEvent(radius))
             => LET expected == TrueMatches(LocalData, currentSearchPoint, radius)
                IN  /\ SearchResults \in DOMAIN viewLayers'
                    /\ viewLayers'[SearchResults].geojson = FeatureCollection(expected)
                    /\ lastToast' = FoundToast(Len(expected), radius)]_vars

\* C7 witness: a search of radius 0 has returned the first and the third feature
\* of a collection, both exactly at the center, and not the second
C7_Witness ==
    /\ ~NoLocalData
    /\ LocalData.features = <<OsloFeature, TrondheimFeature, OsloFeature>>
    /\ lastToast = FoundToast(2, 0)
    /\ SearchResults \in DOMAIN viewLayers
    /\ viewLayers[SearchResults].geojson.features = <<OsloFeature, OsloFeature>>

\* C8: for the center chosen on the map and the collection of the layer,
\* whenever r1 <= r2 the features filterByDistance returns for r1 are all
\* returned for r2.
C8_RadiusMonotonic ==
    (~NoLocalData /\ ~Falsy(currentSearchPoint)) =>
        \A r1 \in Radii, r2 \in Radii :
            r1 <= r2 =>
                LET smaller == filterByDistance(LocalData, currentSearchPoint, r1)
                    larger == filterByDistance(LocalData, currentSearchPoint, r2)
                IN  ~smaller.threw
                        => /\ ~larger.threw
                           /\ IsSubsequence(smaller.features, larger.features)

\* C8 witness: a search has run on a collection for which the radius 50 gives
\* some features and the radius 400 gives more
C8_Witness ==
    /\ ~NoLocalData
    /\ lastToast.message = "Found"
    /\ ~Falsy(currentSearchPoint)
    /\ LET smaller == filterByDistance(LocalData, currentSearchPoint, 50)
           larger == filterByDistance(LocalData, currentSearchPoint, 400)
       IN  /\ ~smaller.threw
           /\ Len(smaller.features) > 0
           /\ Len(larger.features) > Len(smaller.features)

\* C9: for every collection, center and radius, filterByDistance returns only features
\* whose geometry is a Point, and a LineString or Polygon feature never makes it
\* raise an error.
C9_OnlyPointsReturned ==
    (~NoLocalData /\ ~Falsy(currentSearchPoint)) =>
        \A radius \in Radii :
            LET filtered == filterByDistance(LocalData, currentSearchPoint, radius)
            IN  /\ \A i \in 1..Len(filtered.features) :
                       filtered.features[i].geometry.type = "Point"
                /\ filtered.threw
                      => LocalData.features[filtered.tested].geometry.type
                            \notin {"Point", "LineString", "Polygon"}

\* C9 witness: a search over a collection with a LineString, a Polygon and a
\* Point has succeeded and found the Point
C9_Witness ==
    /\ ~NoLocalData
    /\ LocalData.features = <<LineFeature, PolygonFeature, OsloFeature>>
    /\ lastToast.message = "Found"
    /\ lastToast.count = 1
    /\ SearchResults \in DOMAIN viewLayers
    /\ viewLayers[SearchResults].geojson.features = <<OsloFeature>>

(***************************************************************************)
(* Claims on the loading of the layers                                     *)
(***************************************************************************)
\* the record carries a longitude and a latitude
HasCoordinatePair(addr) ==
    /\ addr.representasjonspunkt.t = "object"
    /\ addr.representasjonspunkt.o.lon.t = "number"
    /\ addr.representasjonspunkt.o.lat.t = "number"

\* exactly one record of the response has no coordinate pair, and one has
OneRecordWithoutPair(adresser) ==
    /\ \E i \in 1..Len(adresser) :
          /\ ~HasCoordinatePair(adresser[i])
          /\ \A j \in 1..Len(adresser) : j # i => HasCoordinatePair(adresser[j])
    /\ \E i \in 1..Len(adresser) : HasCoordinatePair(adresser[i])

\* one Point feature for each record that has a coordinate pair, in input order
FeaturesOfRecordsWithPair(adresser) ==
    LET withPair == SelectSeq(adresser, HasCoordinatePair)
    IN  [i \in 1..Len(withPair) |-> AddressFeature(withPair[i])]

\* C10: when one record of the address response has no coordinate pair, that
\* record is skipped, every other record becomes one Point feature in input
\* order, and the data of the address layer is set to that collection.
C10_RecordWithoutPairSkipped ==
    [][\A ogcResponse \in OGCOutcomes :
          (ogcResponse.t = "object" /\ OneRecordWithoutPair(ogcResponse.adresser)
           /\ LoadOGCLayer(ogcResponse))
             => LayerDataOf(layers', "ogc-api-external")
                   = FeatureCollection(FeaturesOfRecordsWithPair(ogcResponse.adresser))]_vars

\* the row's geometry is absent, or is a text that cannot be parsed
GeometryAbsentOrUnparsable(item) ==
    \/ item.geometry.t \in {"undefined", "null"}
    \/ item.geometry.t = "string" /\ JSONparse(item.geometry.s).threw

\* the row's geometry gives a coordinates array, directly or after parsing
GeometryUsable(item) ==
    \/ item.geometry.t = "object" /\ item.geometry.o.coordinates.t = "array"
    \/ /\ item.geometry.t = "string"
       /\ ~JSONparse(item.geometry.s).threw
       /\ JSONparse(item.geometry.s).coordinates.t = "array"

\* some row has no usable geometry, some row has one, and there is no other row
SomeRowsToSkip(rows) ==
    /\ \E i \in 1..Len(rows) : GeometryAbsentOrUnparsable(rows[i])
    /\ \E i \in 1..Len(rows) : GeometryUsable(rows[i])
    /\ \A i \in 1..Len(rows) :
          GeometryAbsentOrUnparsable(rows[i]) \/ GeometryUsable(rows[i])

\* one Point feature for each row with a usable geometry, in input order
FeaturesOfUsableRows(rows) ==
    LET usable == SelectSeq(rows, GeometryUsable)
    IN  [i \in 1..Len(usable) |-> RowFeature(usable[i])]

\* C11: a row of the spatial database whose geometry is absent or cannot be
\* parsed gives no feature (none at a placeholder coordinate either), and the
\* other rows are converted, in order, and stored as the data of the layer.
C11_RowWithoutGeometrySkipped ==
    [][\A supabase \in SupabaseOutcomes :
          (supabase.t = "rows" /\ SomeRowsToSkip(supabase.rows)
           /\ LoadSupabaseLayer(supabase))
             => LayerDataOf(layers', "supabase-locations")
                   = FeatureCollection(FeaturesOfUsableRows(supabase.rows))]_vars

\* C12: when the address request or the Supabase query fails, init() goes on:
\* the data loaded so far stays, the next source is still requested, the
\* listeners are registered, and init() ends as a success.
C12_OptionalFailureDoesNotStopInit ==
    /\ [][/\ (requests.ogc = "pending" /\ requests'.ogc = "rejected")
               => /\ pc' = "supabase"
                  /\ initResult' = "pending"
                  /\ layers' = layers /\ viewLayers' = viewLayers
                  /\ requests.supabase = "none" => requests'.supabase = "pending"
          /\ (requests.supabase = "pending" /\ requests'.supabase = "rejected")
               => /\ pc' = "listeners"
                  /\ initResult' = "pending"
                  /\ layers' = layers /\ viewLayers' = viewLayers
          /\ (pc = "listeners" /\ pc' # pc)
               => /\ pc' = "ready"
                  /\ initResult' = "fulfilled"
                  /\ listeners' = AllListeners
                  /\ lastToast' = Toast("Map loaded successfully!", "success")
                  /\ layers' = layers /\ viewLayers' = viewLayers]_vars
    /\ ("rejected" \in {requests.ogc, requests.supabase})
          ~> (pc = "ready" /\ initResult = "fulfilled")

\* C12 witness: init() has ended as a success after both optional sources
\* failed; the listeners are registered and the local layer has its feature
C12_Witness ==
    /\ pc = "ready"
    /\ initResult = "fulfilled"
    /\ requests = [ogc |-> "rejected", supabase |-> "rejected"]
    /\ listeners = AllListeners
    /\ LayerData("geojson-local") = FeatureCollection(<<OsloFeature>>)
    /\ "geojson-local" \in DOMAIN viewLayers

\* C16: every successful fetch of a source, one that gives zero records
\* included, ends with the data of the source's layer set: after the address
\* response (all of its records with a coordinate pair) or the Supabase rows
\* (all with a usable geometry) have been handled, the layer's data is not null.
C16_SuccessfulFetchSetsData ==
    [][/\ \A ogcResponse \in OGCOutcomes :
             (/\ ogcResponse.t = "object"
              /\ \A i \in 1..Len(ogcResponse.adresser) :
                     HasCoordinatePair(ogcResponse.adresser[i])
              /\ LoadOGCLayer(ogcResponse))
                => LayerDataOf(layers', "ogc-api-external") # Null
       /\ \A supabase \in SupabaseOutcomes :
             (/\ supabase.t = "rows"
              /\ \A i \in 1..Len(supabase.rows) : GeometryUsable(supabase.rows[i])
              /\ LoadSupabaseLayer(supabase))
                => LayerDataOf(layers', "supabase-locations") # Null]_vars

(***************************************************************************)
(* Claims on init() of the ES-module application                           *)
(***************************************************************************)
\* C13: when the load of the required local GeoJSON source has failed, the
\* call of init() ends in an error its caller can observe: the promise init()
\* returned is rejected.
C13_RequiredFailureSurfaced ==
    \A i \in CallIds :
        (IsLoadLayersCall(i) /\ calls[i].pc = "rejected" /\ pc # "local")
            => initResult = "rejected"

\* C14: the requests to the sources are issued concurrently, none waits for the
\* response of another: while the OGC request is outstanding and a Supabase
\* client is configured, the Supabase query has been issued too.
C14_RequestsConcurrent ==
    (requests.ogc = "pending" /\ requests.supabase # "noClient")
        => requests.supabase = "pending"

(***************************************************************************)
(* Claims on querySupabaseWithinDistance                                   *)
(***************************************************************************)
\* C15, as stated: a call whose RPC find_nearby_locations was unavailable or
\* answered with an error does not fail: it never ends by throwing.
C15_RpcFailureNeverFails ==
    [][(pc = "select" /\ pc' = "done") => returned'.t # "thrown"]_vars

\* C15, amended: when the RPC is unavailable or answers with an error, the call
\* does not end there and does not throw that error; it issues the unfiltered
\* full-table query, and then ends as that query ends: it returns the rows of
\* the query (an empty array for no data), or throws the error of the query.
C15_RpcFailureFallsBack ==
    [][\A response \in QueryResponses :
          /\ (QueryFailed(response) /\ RpcSettles(response))
                => /\ pc' = "select"
                   /\ requests' = [rpc |-> "failed", select |-> "pending"]
                   /\ returned' = returned
          /\ (requests.rpc = "failed" /\ SelectSettles(response))
                => /\ pc' = "done"
                   /\ returned' = IF QueryFailed(response) THEN Thrown(response.error)
                                  ELSE OrEmptyArray(response.data)]_vars

\* the RPC failed, the full-table query answered two rows and they were returned
C15_Witness ==
    /\ pc = "done"
    /\ requests = [rpc |-> "failed", select |-> "answered"]
    /\ returned = Arr(<<Row(Undefined), Row(Obj([coordinates |-> Position(5, 60)]))>>)

(***************************************************************************)
(* Claims on MapModel                                                      *)
(***************************************************************************)
\* the names of the layers, in the order of the Map
LayerNamesOf(ls) == [i \in 1..Len(ls) |-> ls[i].name]

\* the layer registered under name
LayerOf(ls, name) == ls[LayerIndex(ls, name)]

\* C17: toggleLayer on a registered layer flips its visibility flag and returns
\* the new value; a second toggle would restore the layers as they were; the
\* layer's data and every other layer are unchanged.
C17_ToggleFlipsRegisteredLayer ==
    [][\A name \in LayerIds :
          (HasLayer(layers, name) /\ ToggleLayerCall(name))
             => /\ LayerNamesOf(layers') = LayerNamesOf(layers)
                /\ LayerOf(layers', name).visible = ~LayerOf(layers, name).visible
                /\ returned' = Bool(LayerOf(layers', name).visible)
                /\ LayerOf(layers', name).data = LayerOf(layers, name).data
                /\ \A other \in LayerIds \ {name} :
                      HasLayer(layers, other)
                         => LayerOf(layers', other) = LayerOf(layers, other)
                /\ toggleLayer(layers', name) = layers
                /\ toggleLayerReturn(layers', name) = LayerOf(layers, name).visible]_vars

\* toggleLayer has just made the hidden layer 'geojson-local' visible and returned
\* true; the layer has kept its data and the other layer is still hidden
C17_Witness ==
    /\ pc = "toggleLayer"
    /\ returned = Bool(TRUE)
    /\ layers = <<[name |-> "geojson-local", data |-> FeatureCollection(<<OsloFeature>>),
                   visible |-> TRUE],
                  [name |-> "ogc-api-external", data |-> Null, visible |-> FALSE]>>

\* C18: toggleLayer with an id that is not registered fails with an
\* unknown-layer error, an outcome that differs from what a successful toggle
\* returns (true or false), and leaves the layers unchanged.
C18_ToggleUnknownLayerFails ==
    [][\A name \in LayerIds :
          (~HasLayer(layers, name) /\ ToggleLayerCall(name))
             => (returned' \notin {Bool(FALSE), Bool(TRUE)} /\ layers' = layers)]_vars

\* C19: setLayerData with an id that is not registered is a silent no-op: the
\* layers are unchanged, no layer is registered, and the call returns undefined
\* without throwing.
C19_SetDataUnknownLayerNoOp ==
    [][\A layerName \in LayerIds, data \in LayerCollections :
          (~HasLayer(layers, layerName) /\ SetLayerDataCall(layerName, data))
             => (layers' = layers /\ returned' = Undefined)]_vars

\* setLayerData was the last call, for 'supabase-locations', which is not
\* registered, and the two registered layers are as addLayer made them
C19_Witness ==
    /\ pc = "setLayerData"
    /\ returned = Undefined
    /\ layers = addLayer(addLayer(<<>>, "geojson-local", TRUE), "ogc-api-external", FALSE)

\* r holds exactly the visible layers of ls, each once, in the order of ls
VisibleInRegistrationOrder(r, ls) ==
    /\ \A i \in 1..Len(r) : r[i].visible /\ HasLayer(ls, r[i].name)
                                /\ r[i] = LayerOf(ls, r[i].name)
    /\ \A j \in 1..Len(ls) : ls[j].visible => \E i \in 1..Len(r) : r[i] = ls[j]
    /\ \A i, j \in 1..Len(r) : i # j => r[i].name # r[j].name
    /\ \A i, j \in 1..Len(r) :
          i < j => LayerIndex(ls, r[i].name) < LayerIndex(ls, r[j].name)

\* C20: after any sequence of addLayer, toggleLayer and setLayerData, the
\* layers hold each registered name once, in the order of first registration
\* (a call adds a name at the end or keeps the order), and getVisibleLayers
\* returns exactly the layers whose visible flag is true, each once, in that
\* order.
C20_VisibleLayersInRegistrationOrder ==
    /\ [](\A i, j \in 1..Len(layers) : i # j => layers[i].name # layers[j].name)
    /\ [][\/ LayerNamesOf(layers') = LayerNamesOf(layers)
          \/ \E name \in LayerIds :
                /\ ~HasLayer(layers, name)
                /\ LayerNamesOf(layers') = Append(LayerNamesOf(layers), name)]_vars
    /\ [][GetVisibleLayersCall
            => (returned'.t = "array"
                /\ VisibleInRegistrationOrder(returned'.a, layers))]_vars

\* three layers are registered, the second one hidden; getVisibleLayers has
\* returned the first and the third
C20_Witness ==
    /\ pc = "getVisibleLayers"
    /\ LayerNamesOf(layers) = <<"supabase-locations", "geojson-local", "ogc-api-external">>
    /\ ~layers[2].visible
    /\ returned = Arr(<<layers[1], layers[3]>>)
    /\ layers[1].data = FeatureCollection(<<OsloFeature>>)

(***************************************************************************)
(* Claims on DataModel.registerSource                                      *)
(***************************************************************************)
\* C21: registering a source under a name that is already registered fails
\* with a duplicate-source error and leaves the config registered under that
\* name unchanged.
C21_DuplicateSourceRejected ==
    [][\A name \in SourceNames, config \in SourceConfigs :
          (name \in DOMAIN dataSources /\ RegisterSourceCall(name, config))
             => (returned'.t = "thrown" /\ dataSources'[name] = dataSources[name])]_vars

(***************************************************************************)
(* Claims on the search over the embedded collection                       *)
(***************************************************************************)
\* C22: the features of the embedded collection that have no geometry were
\* skipped when the collection was stored, so a radius search (positive radius,
\* center chosen, local layer holding data) never fails and never returns a
\* feature without geometry.
C22_FeaturesWithoutGeometrySkipped ==
    [][\A radius \in Radii :
          (radius > 0 /\ ~Falsy(currentSearchPoint) /\ ~NoLocalData
           /\ SpatialSearchEvent(radius))
             => /\ lastToast'.message = "Found"
                /\ SearchResults \in DOMAIN viewLayers'
                /\ \A i \in 1..Len(viewLayers'[SearchResults].geojson.features) :
                      viewLayers'[SearchResults].geojson.features[i].geometry.type
                         # "null"]_vars

(***************************************************************************)
(* Claims on the distance as seen through the filter                       *)
(***************************************************************************)
\* the place of a center [lat, lng], and of a Point feature [lng, lat]
PlaceOfCenter(point) == <<point.a[1].n, point.a[2].n>>

PlaceOfFeature(feature) ==
    <<feature.geometry.coordinates.a[2].n, feature.geometry.coordinates.a[1].n>>

\* C23: for the chosen center B, every feature at a place A of the local layer
\* and every radius r, the feature at A is within r of center B exactly when a
\* feature at B is within r of center A; and a feature at the center itself is
\* matched for every r >= 0.
C23_DistanceSymmetricAndZeroAtCenter ==
    ~Falsy(currentSearchPoint)
       => \A r \in PlaceRadii :
             /\ \A i \in 1..Len(LocalData.features) :
                   LET a == PlaceOfFeature(LocalData.features[i])
                       b == PlaceOfCenter(currentSearchPoint)
                   IN  WithinDistance(FeatureAt(a), CenterAt(b), r)
                          <=> WithinDistance(FeatureAt(b), CenterAt(a), r)
             /\ r >= 0 => WithinDistance(FeatureAt(PlaceOfCenter(currentSearchPoint)),
                                         currentSearchPoint, r)

\* a feature at Oslo and one at Bergen were searched from Trondheim with a
\* radius of 331 km: the one at Oslo was found, the one at Bergen was not
C23_Witness ==
    /\ currentSearchPoint = CenterAt(<<63, 10>>)
    /\ LocalData = FeatureCollection(<<FeatureAt(<<60, 11>>), FeatureAt(<<60, 5>>)>>)
    /\ lastToast = FoundToast(1, 331)
    /\ SearchResults \in DOMAIN viewLayers
    /\ viewLayers[SearchResults].geojson = FeatureCollection(<<FeatureAt(<<60, 11>>)>>)

(***************************************************************************)
(* Claims on the layer control and the map display                         *)
(***************************************************************************)
\* C24: whenever no handler is running, for every layer with a checkbox the
\* visible flag of the layer in MapModel equals the checked state of its
\* checkbox, also for changes made while init() is awaiting loadLayers.
C24_ModelAndControlInSync ==
    \A layerId \in DOMAIN checked :
        HasLayer(layers, layerId)
           => LayerOf(layers, layerId).visible = checked[layerId]

\* C25: once init() has finished, and after any toggle-layer events, a loaded
\* data layer is on the Leaflet map exactly when its visible flag in MapModel
\* is true.
C25_DisplayAgreesWithModel ==
    pc = "ready"
       => \A layerId \in (DOMAIN viewLayers) \cap LayerIds :
             viewLayers[layerId].onMap = LayerOf(layers, layerId).visible

(***************************************************************************)
(* Claims on the end of init() and on the listeners                        *)
(***************************************************************************)
\* the status notifications of init()
StatusToasts ==
    {Toast("Map loaded successfully!", "success"), Toast("Error loading map", "error")}

\* loadLayers has returned without throwing: its fetchGeoJSON call resolved
LoadLayersReturned == \E i \in CallIds : IsLoadLayersCall(i) /\ calls[i].pc = "resolved"

\* C26: provided every issued fetch completes, init() terminates; when it has
\* returned the loading indicator is hidden; a status notification is shown
\* only by the step that ends init(), once, and it is 'Map loaded
\* successfully!' if loadLayers did not throw and 'Error loading map' otherwise.
C26_InitEndsWithIndicatorHiddenAndOneStatus ==
    /\ (initResult = "pending") ~> (initResult # "pending" /\ ~loading)
    /\ [](initResult # "pending" => ~loading)
    /\ [][(lastToast' \in StatusToasts /\ lastToast' # lastToast)
             => (initResult = "pending" /\ initResult' # "pending")]_vars
    /\ [][(initResult = "pending" /\ initResult' # "pending")
             => /\ loading /\ ~loading'
                /\ lastToast' = IF LoadLayersReturned
                                THEN Toast("Map loaded successfully!", "success")
                                ELSE Toast("Error loading map", "error")]_vars

\* the fetch of the local collection failed with a non-OK status and init() has
\* returned: the indicator is hidden and the error notification is shown
C26_Witness ==
    /\ pc = "error"
    /\ initResult = "fulfilled"
    /\ ~loading
    /\ lastToast = Toast("Error loading map", "error")
    /\ \E i \in CallIds : IsLoadLayersCall(i) /\ calls[i].result = "HTTPError"

\* C27: the listeners are registered if and only if loadLayers has completed
\* without throwing, and by the step that follows its completion; while no
\* listener is registered (before registration, and for good after a failed
\* load) every toggle-layer, spatial-search, clear-search and click event leaves
\* MapModel, the map and the search point unchanged; and the step that registers
\* the listeners replays none of the earlier events: it only stores and
\* shows the loaded collection.
C27_ListenersOnlyAfterSuccessfulLoad ==
    /\ [](listeners = IF pc = "ready" THEN AllListeners ELSE {})
    /\ [](pc = "ready" <=> (LoadLayersReturned /\ initResult = "fulfilled"))
    /\ [][pc = "error" => (pc' = "error" /\ listeners' = {})]_vars
    /\ [][(listeners = {}
           /\ \/ \E layerId \in LayerNames : ToggleLayerEvent(layerId)
              \/ \E radius \in Radii : SpatialSearchEvent(radius)
              \/ \E latlng \in Centers : MapClick(latlng)
              \/ ClearSearchEvent)
             => /\ layers' = layers
                /\ viewLayers' = viewLayers
                /\ searchCircle' = searchCircle
                /\ currentSearchPoint' = currentSearchPoint
                /\ orphans' = orphans]_vars
    /\ [][\A i \in CallIds :
             LocalLayerFetched(i)
                => /\ layers' = setLayerData(ModuleLayers, "geojson-local",
                                             GeoJSONBody(calls[i].result))
                   /\ DOMAIN viewLayers' = {"geojson-local"}
                   /\ currentSearchPoint' = Null
                   /\ searchCircle' = Undefined]_vars

\* the load has failed and a checkbox was changed: the checkbox of the local
\* layer is unticked while nothing of MapModel or of the map has changed
C27_Witness ==
    /\ pc = "error"
    /\ listeners = {}
    /\ checked = [renderLayerControl(ModuleLayers) EXCEPT !["geojson-local"] = FALSE]
    /\ layers = ModuleLayers
    /\ viewLayers = NoViewLayers

(***************************************************************************)
(* Claims on the search visualization                                      *)
(***************************************************************************)
\* the search has succeeded: the 'Found ...' notification is shown
SearchSucceeds(radius) == SpatialSearchEvent(radius) /\ lastToast'.message = "Found"

\* what a search over the full stored collection finds
FoundInStoredCollection(radius) ==
    FeatureCollection(filterByDistance(LayerDataOf(layers, "geojson-local"),
                                       currentSearchPoint, radius).features)

\* C28: a search leaves the data and the visible flag of every MapModel layer
\* unchanged, and what a successful search shows is the filter of the full
\* stored collection for its own radius, whatever was searched before.
C28_SearchLeavesLayersUnchanged ==
    [][\A radius \in Radii :
          /\ SpatialSearchEvent(radius) => layers' = layers
          /\ SearchSucceeds(radius)
                => viewLayers'[SearchResults].geojson = FoundInStoredCollection(radius)]_vars

\* Oslo and Trondheim are stored, the center is Oslo: after a search with
\* radius 400 both are shown and both are still stored
C28_Witness ==
    /\ currentSearchPoint = Arr(<<Num(60), Num(11)>>)
    /\ LayerDataOf(layers, "geojson-local")
          = FeatureCollection(<<OsloFeature, TrondheimFeature>>)
    /\ lastToast = FoundToast(2, 400)
    /\ viewLayers[SearchResults].geojson
          = FeatureCollection(<<OsloFeature, TrondheimFeature>>)

\* C29: the map never holds a search-result layer besides the one MapView
\* refers to, nor a circle besides searchCircle; a successful search puts the
\* result layer and the circle of its own radius and center in the place of the
\* previous ones and touches no other layer of the map; a search without a
\* search point changes neither.
C29_AtMostOneSearchVisualization ==
    /\ [](OrphanCount(orphans, SearchResults) = 0)
    /\ [][\A radius \in Radii :
             SearchSucceeds(radius)
                => /\ viewLayers'[SearchResults]
                         = [geojson |-> FoundInStoredCollection(radius), onMap |-> TRUE]
                   /\ searchCircle' = [t |-> "circle", center |-> currentSearchPoint,
                                       radius |-> radius * 1000]
                   /\ \A layerId \in (DOMAIN viewLayers) \ {SearchResults} :
                         layerId \in DOMAIN viewLayers'
                         /\ viewLayers'[layerId] = viewLayers[layerId]
                   /\ DOMAIN viewLayers' = (DOMAIN viewLayers) \cup {SearchResults}]_vars
    /\ [][\A radius \in Radii :
             (Falsy(currentSearchPoint) /\ SpatialSearchEvent(radius))
                => (viewLayers' = viewLayers /\ searchCircle' = searchCircle
                    /\ orphans' = orphans)]_vars

\* Trondheim and Oslo are stored, the center is Oslo: a search with radius 50
\* has put its result layer, holding Oslo only, and its circle on the map
C29_Witness ==
    /\ currentSearchPoint = Arr(<<Num(60), Num(11)>>)
    /\ lastToast = FoundToast(1, 50)
    /\ DOMAIN viewLayers = {"geojson-local", SearchResults}
    /\ viewLayers[SearchResults]
          = [geojson |-> FeatureCollection(<<OsloFeature>>), onMap |-> TRUE]
    /\ searchCircle = [t |-> "circle", center |-> Arr(<<Num(60), Num(11)>>),
                       radius |-> 50000]
    /\ LayerDataOf(layers, "geojson-local")
          = FeatureCollection(<<TrondheimFeature, OsloFeature>>)

\* C30: after a clear-search event no search visualization remains on the map:
\* the radius circle and the 'geojson-search-results' layer are both removed,
\* and the data layers and MapModel are unchanged.
C30_ClearRemovesVisualization ==
    [][ClearSearchEvent
         => /\ Falsy(searchCircle')
            /\ SearchResults \notin DOMAIN viewLayers'
            /\ layers' = layers
            /\ \A layerId \in (DOMAIN viewLayers) \ {SearchResults} :
                  layerId \in DOMAIN viewLayers'
                  /\ viewLayers'[layerId] = viewLayers[layerId]]_vars

====
